---- MODULE Spec2Model ----
(***************************************************************************)
(* Model of the multipart-upload coordinator (Cloudflare Worker `fetch`    *)
(* handler of src/src/index.ts, with the two earlier revisions kept in     *)
(* src/unnamed/part_000) and of the object-storage backend it talks to.    *)
(*                                                                         *)
(* Strings are sequences (of characters or of opaque segments); the empty  *)
(* string is <<>>.  JavaScript values are records tagged by field t.       *)
(***************************************************************************)
EXTENDS Integers, Sequences, FiniteSets, TLC

\* ------------------------------------------------------------------ bounds
MaxSessions == 1        \* sessions the backend will open in one run
NumInv == 2             \* handler invocations that may be in flight at once
MaxPartNumber == 2      \* largest part number the client uses
MaxParts == 2           \* longest completion manifest the client sends

VARIABLES rev, sessions, inv, out, drawn, issued

vars == <<rev, sessions, inv, out, drawn, issued>>

\* ------------------------------------------------------ JavaScript values
Undefined == [t |-> "undefined"]
Null == [t |-> "null"]
NaN == [t |-> "number", nan |-> TRUE, v |-> 0]
Unparseable == [t |-> "unparseable"]
Str(s) == [t |-> "string", v |-> s]
Num(n) == [t |-> "number", nan |-> FALSE, v |-> n]
Arr(s) == [t |-> "array", v |-> s]
Obj(k, u, p) == [t |-> "object", key |-> k, uploadId |-> u, parts |-> p]

\* JavaScript ToBoolean, as applied by the `!x` tests of the handler.
Truthy(x) ==
  CASE x.t \in {"undefined", "null"} -> FALSE
    [] x.t = "string" -> Len(x.v) > 0
    [] x.t = "number" -> ~x.nan /\ x.v # 0
    [] OTHER -> TRUE

Digits == {"0", "1", "2", "3", "4", "5", "6", "7", "8", "9"}
DigitVal ==
  [c \in Digits |->
     CASE c = "0" -> 0 [] c = "1" -> 1 [] c = "2" -> 2 [] c = "3" -> 3
       [] c = "4" -> 4 [] c = "5" -> 5 [] c = "6" -> 6 [] c = "7" -> 7
       [] c = "8" -> 8 [] OTHER -> 9]
DigitStr == <<"1", "2", "3", "4", "5", "6", "7", "8", "9">>

AllDigits(s) == \A i \in 1..Len(s) : s[i] \in Digits

RECURSIVE Dec(_)
Dec(s) == IF s = <<>> THEN 0
          ELSE 10 * Dec(SubSeq(s, 1, Len(s) - 1)) + DigitVal[s[Len(s)]]

\* JavaScript Number(x) for x null or a string over digits, signs and letters.
ToNumber(x) ==
  IF x.t = "null" THEN Num(0)
  ELSE IF x.v = <<>> THEN Num(0)
  ELSE IF AllDigits(x.v) THEN Num(Dec(x.v))
  ELSE IF Len(x.v) > 1 /\ Head(x.v) = "-" /\ AllDigits(Tail(x.v))
       THEN Num(0 - Dec(Tail(x.v)))
  ELSE IF Len(x.v) > 1 /\ Head(x.v) = "+" /\ AllDigits(Tail(x.v))
       THEN Num(Dec(Tail(x.v)))
  ELSE NaN

\* ------------------------------------------------------------- responses
NoInit == [hasStatus |-> FALSE, status |-> 200, headers |-> {}]
StatusInit(s) == [hasStatus |-> TRUE, status |-> s, headers |-> {}]
JsonInit == [hasStatus |-> FALSE, status |-> 200,
             headers |-> {<<"Content-Type", "application/json">>}]
JsonStatusInit(s) == [hasStatus |-> TRUE, status |-> s,
                      headers |-> {<<"Content-Type", "application/json">>}]

CorsHeaders == {<<"Access-Control-Allow-Origin", "*">>,
                <<"Access-Control-Allow-Methods", "GET,POST,OPTIONS">>,
                <<"Access-Control-Allow-Headers", "Content-Type">>}

\* Headers.set for a group of headers: a set header replaces one of its name.
SetHeaders(hs, new) ==
  {h \in hs : \A n \in new : n[1] # h[1]} \cup new

\* new Response(body, init): status defaults to 200; a text body gets a
\* Content-Type unless init names one.
NewResponse(body, init) ==
  [status |-> IF init.hasStatus THEN init.status ELSE 200,
   body |-> body,
   headers |-> IF body.kind = "text"
                  /\ \A h \in init.headers : h[1] # "Content-Type"
               THEN init.headers \cup {<<"Content-Type", "text/plain;charset=UTF-8">>}
               ELSE init.headers]

\* { ...response }: the own enumerable properties of a Response.  status,
\* statusText and headers are accessors of Response.prototype, so the spread
\* copies none of them.
SpreadResponse(r) == NoInit

withCors(r) ==
  NewResponse(r.body,
              [SpreadResponse(r) EXCEPT !.headers = SetHeaders(r.headers, CorsHeaders)])

\* ------------------------------------------------------------- revisions
\* "index" is src/src/index.ts; "cors" and "first" are the two earlier
\* revisions of the handler kept in src/unnamed/part_000.
Revisions == {"index", "cors", "first"}

\* Variant: no revision answers preflights.
HandlesOptionsNever(r) == FALSE

\* `if (request.method === "OPTIONS")` opens the handler since CORS was added.
HandlesOptions(r) == r # "first"
HasCors(r) == r # "first"
HasCatch(r) == r # "first"

\* Bucket literal of each command.
Bucket(r, op) ==
  IF r = "index"
  THEN (IF op = "sign" THEN "large-video=uploads" ELSE "large-video-uploads")
  ELSE "videos"

ExpiresIn == 3600

Cors(r, resp) == IF HasCors(r) THEN withCors(resp) ELSE resp

\* -------------------------------------------------- identifiers and errors
UUIDs == {"a", "b"}

\* Variant: one fixed object key.
KeyOfFixed(uuid) == <<"uploads/", "video", ".mp4">>

\* `uploads/${crypto.randomUUID()}.mp4`
KeyOf(uuid) == <<"uploads/", uuid, ".mp4">>
NoErr == "none"
Stack(e) == <<e, "at fetch">>

\* ------------------------------------------- storage backend: sessions
\* sessions[n] is the multipart session whose uploadId is UploadId(n).
UploadId(n) == <<"upload-", DigitStr[n]>>
ETag(n) == <<"etag-", DigitStr[n]>>
BadETag == <<"etag-", "x">>
PartNumbers == 1..MaxPartNumber

Location(bucket, key) == <<"https://storage/", bucket, key>>

FindSession(bucket, key, uploadId) ==
  {n \in DOMAIN sessions :
     /\ UploadId(n) = uploadId
     /\ sessions[n].bucket = bucket
     /\ sessions[n].key = key}

OpenSession(bucket, key, uploadId) ==
  {n \in FindSession(bucket, key, uploadId) : sessions[n].state = "open"}

\* ---------------------------------------------------------- the handler
\* Outcome of the part of an invocation that runs before its backend call.
Return(resp, calls) == [kind |-> "return", resp |-> resp, calls |-> calls, err |-> NoErr]
Throw(e, calls) == [kind |-> "throw", err |-> e, calls |-> calls]
Await(cmd) == [kind |-> "await", cmd |-> cmd]

CreateMultipartUploadCommand(r, key) ==
  [op |-> "create", Bucket |-> Bucket(r, "create"), Key |-> key]

UploadPartCommand(r, key, uploadId, partNumber) ==
  [op |-> "sign", Bucket |-> Bucket(r, "sign"), Key |-> key,
   PartNumber |-> partNumber, UploadId |-> uploadId]

\* Variant: the entries sorted by part number before they are sent.
MapPartsSorted(parts) ==
  LET f == CHOOSE g \in Permutations(1..Len(parts)) :
             \A a, b \in 1..Len(parts) :
               a < b => parts[g[a]].partNumber <= parts[g[b]].partNumber
  IN [i \in 1..Len(parts) |->
        [ETag |-> parts[f[i]].etag, PartNumber |-> parts[f[i]].partNumber]]

\* Variant: an entry whose part number was already listed is dropped.
MapPartsDeduped(parts) ==
  LET F[i \in 0..Len(parts)] ==
        IF i = 0 THEN <<>>
        ELSE IF \E j \in 1..(i - 1) : parts[j].partNumber = parts[i].partNumber
        THEN F[i - 1]
        ELSE Append(F[i - 1], [ETag |-> parts[i].etag, PartNumber |-> parts[i].partNumber])
  IN F[Len(parts)]

\* body.parts.map(p => ({ ETag: p.etag, PartNumber: p.partNumber }))
MapParts(parts) ==
  [i \in 1..Len(parts) |-> [ETag |-> parts[i].etag, PartNumber |-> parts[i].partNumber]]

CompleteMultipartUploadCommand(r, key, uploadId, parts) ==
  [op |-> "complete", Bucket |-> Bucket(r, "complete"), Key |-> key,
   UploadId |-> uploadId, Parts |-> MapParts(parts)]

\* getSignedUrl(s3, command, { expiresIn: 3600 }): computed from the command
\* and the credentials alone.
SignedUrl(cmd) ==
  [bucket |-> cmd.Bucket, key |-> cmd.Key, uploadId |-> cmd.UploadId,
   partNumber |-> cmd.PartNumber, expiresIn |-> ExpiresIn]

Initiate(r, uuid) == Await(CreateMultipartUploadCommand(r, KeyOf(uuid)))

\* Variant: the session is looked up before the URL is signed.
SignPartChecked(r, req, signOk) ==
  LET key == req.key
      uploadId == req.uploadId
      partNumber == ToNumber(req.partNumber)
  IN IF ~Truthy(key) \/ ~Truthy(uploadId) \/ ~Truthy(partNumber)
     THEN Return(Cors(r, NewResponse([kind |-> "text", text |-> "Missing parameters"],
                                     StatusInit(400))), <<>>)
     ELSE IF ~\E n \in DOMAIN sessions :
                /\ sessions[n].state = "open"
                /\ sessions[n].key = key.v
                /\ UploadId(n) = uploadId.v
     THEN Throw("NoSuchUpload", <<>>)
     ELSE LET command == UploadPartCommand(r, key.v, uploadId.v, partNumber.v)
          IN IF signOk
             THEN Return(Cors(r, NewResponse([kind |-> "signed", signedUrl |-> SignedUrl(command)],
                                             JsonInit)), <<command>>)
             ELSE Throw("SigningError", <<command>>)

\* Variant: the part-upload command is sent to the backend.
SignPartSent(r, req, signOk) ==
  LET key == req.key
      uploadId == req.uploadId
      partNumber == ToNumber(req.partNumber)
  IN IF ~Truthy(key) \/ ~Truthy(uploadId) \/ ~Truthy(partNumber)
     THEN Return(Cors(r, NewResponse([kind |-> "text", text |-> "Missing parameters"],
                                     StatusInit(400))), <<>>)
     ELSE Await(UploadPartCommand(r, key.v, uploadId.v, partNumber.v))

SignPart(r, req, signOk) ==
  LET key == req.key
      uploadId == req.uploadId
      partNumber == ToNumber(req.partNumber)
  IN IF ~Truthy(key) \/ ~Truthy(uploadId) \/ ~Truthy(partNumber)
     THEN Return(Cors(r, NewResponse([kind |-> "text", text |-> "Missing parameters"],
                                     StatusInit(400))), <<>>)
     ELSE LET command == UploadPartCommand(r, key.v, uploadId.v, partNumber.v)
          IN IF signOk
             THEN Return(Cors(r, NewResponse([kind |-> "signed", signedUrl |-> SignedUrl(command)],
                                             JsonInit)), <<command>>)
             ELSE Throw("SigningError", <<command>>)

\* body.key and body.uploadId of the parsed body; body.parts?.length.
Member(body, f) ==
  IF body.t = "object" THEN body[f] ELSE Undefined

LengthOf(x) ==
  IF x.t \in {"array", "string"} THEN Num(Len(x.v)) ELSE Undefined

Complete(r, req) ==
  LET body == req.body
  IN IF body.t = "unparseable" THEN Throw("SyntaxError", <<>>)
     ELSE IF body.t \in {"null", "undefined"} THEN Throw("TypeError", <<>>)
     ELSE IF ~Truthy(Member(body, "key")) \/ ~Truthy(Member(body, "uploadId"))
             \/ ~Truthy(LengthOf(Member(body, "parts")))
     THEN Return(Cors(r, NewResponse([kind |-> "text", text |-> "Invalid request body"],
                                     StatusInit(400))), <<>>)
     ELSE IF body.parts.t # "array" THEN Throw("TypeError", <<>>)
     ELSE Await(CompleteMultipartUploadCommand(r, body.key.v, body.uploadId.v, body.parts.v))

NotFound(r) == Return(Cors(r, NewResponse([kind |-> "text", text |-> "Not found"],
                                          StatusInit(404))), <<>>)

Preflight == Return(NewResponse([kind |-> "empty"],
                                [hasStatus |-> FALSE, status |-> 200, headers |-> CorsHeaders]),
                    <<>>)

\* Variant: the catch answers with a fixed message.
CatchResponseGeneric(r, e) ==
  withCors(NewResponse([kind |-> "error", error |-> "Internal Server Error"],
                       JsonStatusInit(500)))

\* catch (err): the 500 response of the handler; without a catch the error
\* leaves fetch and the runtime answers with its own error page.
CatchResponse(r, e) ==
  IF r = "index"
  THEN withCors(NewResponse([kind |-> "error", error |-> e, stack |-> Stack(e)],
                            JsonStatusInit(500)))
  ELSE withCors(NewResponse([kind |-> "error", error |-> e], JsonStatusInit(500)))

Uncaught == [status |-> 500, body |-> [kind |-> "runtime-error"], headers |-> {}]

OnError(r, e, calls) ==
  [kind |-> "return",
   resp |-> IF HasCatch(r) THEN CatchResponse(r, e) ELSE Uncaught,
   calls |-> calls, err |-> e]

Route(r, req, uuid, signOk) ==
  IF req.path = "/initiate" THEN Initiate(r, uuid)
  ELSE IF req.path = "/sign-part" THEN SignPart(r, req, signOk)
  ELSE IF req.path = "/complete" THEN Complete(r, req)
  ELSE NotFound(r)

\* fetch(request, env) up to its first backend call.
Fetch(r, req, uuid, signOk) ==
  IF HandlesOptions(r) /\ req.method = "OPTIONS" THEN Preflight
  ELSE LET res == Route(r, req, uuid, signOk)
       IN IF res.kind = "throw" THEN OnError(r, res.err, res.calls) ELSE res

\* Variant: the key is kept in a variable of the module, which the latest
\* /initiate invocation has set.
OnCreatedShared(r, cmd, uploadId) ==
  Cors(r, NewResponse([kind |-> "initiated", uploadId |-> uploadId,
                       key |-> issued[Len(issued)].Key],
                      JsonInit))

\* The rest of fetch once s3.send(command) has resolved.
OnCreated(r, cmd, uploadId) ==
  Cors(r, NewResponse([kind |-> "initiated", uploadId |-> uploadId, key |-> cmd.Key],
                      JsonInit))

OnCompleted(r, cmd, location) ==
  Cors(r, NewResponse(IF r = "index"
                      THEN [kind |-> "completed", location |-> location, key |-> cmd.Key]
                      ELSE [kind |-> "completed", location |-> location],
                      JsonInit))

\* ------------------------------------------ storage backend: operations
\* complete_session: rejected when the session is not open, a listed part
\* was never stored, or a listed ETag is not the one recorded for the part.
CompleteVerdict(cmd) ==
  LET S == OpenSession(cmd.Bucket, cmd.Key, cmd.UploadId)
  IN IF S = {} THEN "NoSuchUpload"
     ELSE IF \E n \in S : \E i \in DOMAIN cmd.Parts :
                \/ cmd.Parts[i].PartNumber \notin sessions[n].parts
                \/ cmd.Parts[i].ETag # ETag(cmd.Parts[i].PartNumber)
     THEN "InvalidPart"
     ELSE "ok"

\* PUT of a part through a signed URL.
PutVerdict(url, fresh) ==
  IF ~fresh THEN "AccessDenied"
  ELSE IF OpenSession(url.bucket, url.key, url.uploadId) = {} THEN "NoSuchUpload"
  ELSE IF url.partNumber \notin PartNumbers THEN "InvalidArgument"
  ELSE "ok"

\* ---------------------------------------------------------------- state
Idle == [pc |-> "idle"]
NoOut == [kind |-> "none"]
Invs == 1..NumInv

\* What one step hands back to the client: the response of an invocation
\* that ended in this step, with the backend operations it issued and the
\* error it met; or the result of a PUT.
Responded(req, res) ==
  [kind |-> "response", req |-> req, resp |-> res.resp, calls |-> res.calls,
   err |-> res.err]

InitRev(r) ==
  /\ rev = r
  /\ sessions = <<>>
  /\ inv = [i \in Invs |-> Idle]
  /\ out = NoOut
  /\ drawn = {}
  /\ issued = <<>>

\* Any of the three revisions of the handler is the deployed one.
Init == \E r \in Revisions : InitRev(r)

\* -------------------------------------------------------------- requests
Req(m, p, k, u, n, b) ==
  [method |-> m, path |-> p, key |-> k, uploadId |-> u, partNumber |-> n, body |-> b]

\* The client names the key and the uploadIds it may have been given; the
\* session it names is absent, or another one, whenever the backend holds
\* no session under them.
ClientKeys == {KeyOf("a")}
ClientUploadIds == {UploadId(n) : n \in 1..MaxSessions}
Entries == {[etag |-> ETag(n), partNumber |-> n] : n \in PartNumbers}
             \cup {[etag |-> BadETag, partNumber |-> 1]}
Manifests == UNION {[1..l -> Entries] : l \in 1..MaxParts}
\* Manifests that list no part number twice.
UniqueManifests ==
  {m \in Manifests :
     \A a, b \in DOMAIN m : a # b => m[a].partNumber # m[b].partNumber}

PartNumberDigits == {<<DigitStr[n]>> : n \in PartNumbers}

NoParams(m, p) == Req(m, p, Null, Null, Null, Unparseable)
SignReq(m, k, u, n) == Req(m, "/sign-part", k, u, n, Unparseable)
CompleteReq(m, b) == Req(m, "/complete", Null, Null, Null, b)

\* The requests of the protocol runs: every well-formed request over the
\* client's keys, uploadIds, part numbers and duplicate-free manifests, and
\* one request of each rejected kind.
ProtocolRequests ==
  {NoParams("POST", "/initiate"), NoParams("GET", "/other"),
   NoParams("OPTIONS", "/complete"),
   SignReq("GET", Null, Str(UploadId(1)), Str(<<"1">>)),
   CompleteReq("POST", Unparseable),
   CompleteReq("POST", Obj(Str(KeyOf("a")), Str(UploadId(1)), Arr(<<>>)))}
  \cup {SignReq("GET", Str(k), Str(u), Str(n)) :
          k \in ClientKeys, u \in ClientUploadIds,
          n \in PartNumberDigits \cup {<<"0">>, <<"-", "1">>}}
  \cup {CompleteReq("POST", Obj(Str(k), Str(u), Arr(m))) :
          k \in ClientKeys, u \in ClientUploadIds, m \in UniqueManifests}

\* The requests of the single-invocation runs: every combination of present,
\* absent, empty and malformed parameters.
Methods == {"GET", "POST", "OPTIONS"}
Paths == {"/initiate", "/sign-part", "/complete", "/other"}
StringParams == {Null, Str(<<>>)} \cup {Str(k) : k \in ClientKeys}
IdParams == {Null, Str(<<>>)} \cup {Str(u) : u \in ClientUploadIds}
RawPartNumbers ==
  {<<>>, <<"0">>, <<"a">>, <<"-">>, <<"-", "1">>, <<"-", "0">>, <<"0", "1">>,
   <<"1", "a">>, <<"+", "1">>, <<"1", "0">>} \cup PartNumberDigits
PartNumberParams == {Null} \cup {Str(n) : n \in RawPartNumbers}
StringFields == {Undefined, Null, Str(<<>>)} \cup {Str(k) : k \in ClientKeys}
IdFields == {Undefined, Str(<<>>)} \cup {Str(u) : u \in ClientUploadIds}
PartsFields == {Undefined, Null, Arr(<<>>), Str(<<"x">>)} \cup {Arr(m) : m \in Manifests}
Bodies ==
  {Unparseable, Null, Num(5), Str(<<"x">>)}
  \cup {Obj(k, u, p) : k \in StringFields, u \in IdFields, p \in PartsFields}

HandlerRequests ==
  {NoParams(m, p) : m \in Methods, p \in {"/initiate", "/other"}}
  \cup {SignReq(m, k, u, n) : m \in {"GET", "OPTIONS"}, k \in StringParams,
                              u \in IdParams, n \in PartNumberParams}
  \cup {CompleteReq(m, b) : m \in {"POST", "OPTIONS"}, b \in Bodies}

\* --------------------------------------------------------------- actions
\* Variant: a rejected command is sent once more before giving up.
SendFailedRetry(r, slot, e) ==
  IF Len(slot.calls) < 2
  THEN [inv |-> [slot EXCEPT !.calls = Append(@, slot.cmd)], out |-> NoOut]
  ELSE [inv |-> Idle, out |-> Responded(slot.req, OnError(r, e, slot.calls))]

\* s3.send(command) rejected with error e: control passes to the catch and
\* the invocation ends.
SendFailed(r, slot, e) ==
  [inv |-> Idle, out |-> Responded(slot.req, OnError(r, e, slot.calls))]

\* The invocation reaches `crypto.randomUUID()`: the request is routed to the
\* /initiate branch.
Draws(r, req) ==
  req.path = "/initiate" /\ ~(HandlesOptions(r) /\ req.method = "OPTIONS")

\* A request arrives, is given to the first free invocation slot, and the
\* handler runs up to its backend call, up to `await getSignedUrl(...)`, or
\* to its response when it reaches neither.
\* Requests arrive while no response is being handed to the client.
Receive(i, req, uuid, signOk) ==
  /\ out = NoOut
  /\ inv[i].pc = "idle"
  /\ \A j \in 1..(i - 1) : inv[j].pc # "idle"
  /\ LET res == Fetch(rev, req, uuid, signOk)
     IN IF res.kind = "await"
        THEN /\ inv' = [inv EXCEPT ![i] = [pc |-> "await", req |-> req,
                                           cmd |-> res.cmd, calls |-> <<res.cmd>>]]
             /\ out' = NoOut
        ELSE IF res.calls # <<>>
        THEN /\ inv' = [inv EXCEPT ![i] = [pc |-> "signing", req |-> req, res |-> res]]
             /\ out' = NoOut
        ELSE /\ out' = Responded(req, res)
             /\ UNCHANGED inv
  /\ IF Draws(rev, req)
     THEN drawn' = drawn \cup {uuid} /\ issued' = Append(issued, Initiate(rev, uuid).cmd)
     ELSE UNCHANGED <<drawn, issued>>
  /\ UNCHANGED <<rev, sessions>>

\* `await getSignedUrl(...)` settles, with the URL or with the signer's
\* error, and the handler answers.
SignerDone(i) ==
  /\ inv[i].pc = "signing"
  /\ out' = Responded(inv[i].req, inv[i].res)
  /\ inv' = [inv EXCEPT ![i] = Idle]
  /\ UNCHANGED <<rev, sessions, drawn, issued>>

\* The backend opens the session of a create command and the handler answers.
CreateSession(i) ==
  /\ inv[i].pc = "await"
  /\ inv[i].cmd.op = "create"
  /\ Len(sessions) < MaxSessions
  /\ sessions' = Append(sessions, [bucket |-> inv[i].cmd.Bucket, key |-> inv[i].cmd.Key,
                                   state |-> "open", parts |-> {}])
  /\ out' = Responded(inv[i].req,
                      Return(OnCreated(rev, inv[i].cmd, UploadId(Len(sessions) + 1)),
                             inv[i].calls))
  /\ inv' = [inv EXCEPT ![i] = Idle]
  /\ UNCHANGED <<rev, drawn, issued>>

\* The backend executes a complete command and the handler answers.
CompleteSession(i) ==
  /\ inv[i].pc = "await"
  /\ inv[i].cmd.op = "complete"
  /\ LET cmd == inv[i].cmd
         v == CompleteVerdict(cmd)
     IN IF v = "ok"
        THEN /\ sessions' = [n \in DOMAIN sessions |->
                               IF n \in OpenSession(cmd.Bucket, cmd.Key, cmd.UploadId)
                               THEN [sessions[n] EXCEPT !.state = "closed"]
                               ELSE sessions[n]]
             /\ out' = Responded(inv[i].req,
                                 Return(OnCompleted(rev, cmd, Location(cmd.Bucket, cmd.Key)),
                                        inv[i].calls))
             /\ inv' = [inv EXCEPT ![i] = Idle]
        ELSE /\ inv' = [inv EXCEPT ![i] = SendFailed(rev, inv[i], v).inv]
             /\ out' = SendFailed(rev, inv[i], v).out
             /\ UNCHANGED sessions
  /\ UNCHANGED <<rev, drawn, issued>>

\* The backend cannot be reached, or refuses the credentials.
BackendFail(i) ==
  /\ inv[i].pc = "await"
  /\ inv' = [inv EXCEPT ![i] = SendFailed(rev, inv[i], "ServiceUnavailable").inv]
  /\ out' = SendFailed(rev, inv[i], "ServiceUnavailable").out
  /\ UNCHANGED <<rev, sessions, drawn, issued>>

\* The client PUTs a part through the signed URL it has just been given.
PutPart(fresh) ==
  /\ out.kind = "response"
  /\ out.resp.body.kind = "signed"
  /\ LET url == out.resp.body.signedUrl
         v == PutVerdict(url, fresh)
     IN /\ out' = [kind |-> "put", url |-> url, fresh |-> fresh, verdict |-> v]
        /\ sessions' = IF v = "ok"
                       THEN [n \in DOMAIN sessions |->
                               IF n \in OpenSession(url.bucket, url.key, url.uploadId)
                               THEN [sessions[n] EXCEPT !.parts = @ \cup {url.partNumber}]
                               ELSE sessions[n]]
                       ELSE sessions
  /\ UNCHANGED <<rev, inv, drawn, issued>>

\* The backend aborts an open session on its own (expiry).
Expire(n) ==
  /\ n \in DOMAIN sessions
  /\ sessions[n].state = "open"
  /\ sessions' = [sessions EXCEPT ![n].state = "aborted"]
  /\ out' = NoOut
  /\ UNCHANGED <<rev, inv, drawn, issued>>

\* The client has taken the response.
Deliver ==
  /\ out # NoOut
  /\ out' = NoOut
  /\ UNCHANGED <<rev, sessions, inv, drawn, issued>>

\* The random draws and signer outcomes an invocation can meet: only
\* /initiate calls crypto.randomUUID(), only /sign-part calls getSignedUrl.
\* crypto.randomUUID() returns an identifier it has not returned before
\* (drawn holds the ones it has returned).
RandomUUIDs(req) == IF Draws(rev, req) THEN UUIDs \ drawn ELSE {"a"}
SignerOutcomes(req) == IF req.path = "/sign-part" THEN BOOLEAN ELSE {TRUE}

Next ==
  \/ \E i \in Invs, req \in ProtocolRequests :
       \E uuid \in RandomUUIDs(req), signOk \in SignerOutcomes(req) :
         Receive(i, req, uuid, signOk)
  \/ \E i \in Invs : SignerDone(i)
  \/ \E i \in Invs : CreateSession(i)
  \/ \E i \in Invs : CompleteSession(i)
  \/ \E i \in Invs : BackendFail(i)
  \/ \E fresh \in BOOLEAN : PutPart(fresh)
  \/ \E n \in 1..MaxSessions : Expire(n)
  \/ Deliver

Spec == Init /\ [][Next]_vars

\* The protocol with one invocation at a time: every backend operation is a
\* single step, so the backend goes through the same states as under Next.
NextSequential ==
  \/ \E req \in ProtocolRequests :
       \E uuid \in RandomUUIDs(req), signOk \in SignerOutcomes(req) :
         Receive(1, req, uuid, signOk)
  \/ SignerDone(1)
  \/ CreateSession(1)
  \/ CompleteSession(1)
  \/ BackendFail(1)
  \/ \E fresh \in BOOLEAN : PutPart(fresh)
  \/ \E n \in 1..MaxSessions : Expire(n)
  \/ Deliver

SpecSequential == Init /\ [][NextSequential]_vars

\* One invocation at a time over the full space of requests, the backend
\* left to the commands of the handler.
NextHandler ==
  \/ \E req \in HandlerRequests :
       \E uuid \in RandomUUIDs(req), signOk \in SignerOutcomes(req) :
         Receive(1, req, uuid, signOk)
  \/ SignerDone(1)
  \/ CreateSession(1)
  \/ CompleteSession(1)
  \/ BackendFail(1)
  \/ Deliver

SpecHandler == Init /\ [][NextHandler]_vars

\* Concurrent Initiate calls alone, in every interleaving with the backend's
\* answers.
NextInitiate ==
  \/ \E i \in Invs, m \in Methods :
       \E uuid \in RandomUUIDs(NoParams(m, "/initiate")) :
         Receive(i, NoParams(m, "/initiate"), uuid, TRUE)
  \/ \E i \in Invs : CreateSession(i)
  \/ \E i \in Invs : BackendFail(i)
  \/ Deliver

SpecInitiate == Init /\ [][NextInitiate]_vars

\* Concurrent invocations of the three phases of one upload, with a rejected
\* and an unrouted request among them.
ConcurrentRequests ==
  {NoParams("POST", "/initiate"), NoParams("GET", "/other"),
   SignReq("GET", Null, Str(UploadId(1)), Str(<<"1">>)),
   CompleteReq("POST", Obj(Str(KeyOf("a")), Str(UploadId(1)),
                           Arr(<<[etag |-> ETag(1), partNumber |-> 1]>>)))}
  \cup {SignReq("GET", Str(KeyOf("a")), Str(UploadId(1)), Str(n)) : n \in PartNumberDigits}

NextConcurrent ==
  \/ \E i \in Invs, req \in ConcurrentRequests :
       \E uuid \in RandomUUIDs(req), signOk \in SignerOutcomes(req) :
         Receive(i, req, uuid, signOk)
  \/ \E i \in Invs : SignerDone(i)
  \/ \E i \in Invs : CreateSession(i)
  \/ \E i \in Invs : CompleteSession(i)
  \/ \E i \in Invs : BackendFail(i)
  \/ PutPart(TRUE)
  \/ Deliver

SpecConcurrent == Init /\ [][NextConcurrent]_vars

\* The handler since CORS handling was added (index.ts and the second
\* revision of part_000), one invocation at a time, with preflights to every
\* path.
PreflightRequests ==
  {NoParams("OPTIONS", "/initiate"), NoParams("OPTIONS", "/other"),
   SignReq("OPTIONS", Str(KeyOf("a")), Str(UploadId(1)), Str(<<"1">>)),
   CompleteReq("OPTIONS", Obj(Str(KeyOf("a")), Str(UploadId(1)),
                              Arr(<<[etag |-> ETag(1), partNumber |-> 1]>>))),
   CompleteReq("OPTIONS", Unparseable)}

InitCors == \E r \in {"index", "cors"} : InitRev(r)

NextCors ==
  \/ NextSequential
  \/ \E req \in PreflightRequests : Receive(1, req, "a", TRUE)

SpecCors == InitCors /\ [][NextCors]_vars

\* ------------------------------------------------------- claim vocabulary
IsResponse == out.kind = "response"
InFlight(i) == inv[i].pc = "await"

\* The response in out answers a request that reached the branch of path p
\* (a preflight never reaches a branch where the handler answers preflights).
Routed(p) ==
  /\ IsResponse
  /\ out.req.path = p
  /\ ~(HandlesOptions(rev) /\ out.req.method = "OPTIONS")

PartNumberInvalid(x) ==
  x.t = "null" \/ ToNumber(x).nan \/ ToNumber(x).v <= 0

SignParamsValid(req) ==
  Truthy(req.key) /\ Truthy(req.uploadId) /\ ~PartNumberInvalid(req.partNumber)

\* Session n is the one a request or command names by key and uploadId.
Names(key, uploadId, n) ==
  n \in DOMAIN sessions /\ sessions[n].key = key /\ UploadId(n) = uploadId

BackendErrors == {"ServiceUnavailable", "NoSuchUpload", "InvalidPart", "SigningError"}

\* ---------------------------------------------------------------- claims

\* C1: a /sign-part request with key or uploadId missing or empty, or with
\* partNumber missing, non-numeric, zero or negative, gets a 4xx response and
\* the invocation calls neither the signer nor any other backend operation.
C1_SignPartRejectsInvalid ==
  (Routed("/sign-part") /\ ~SignParamsValid(out.req))
    => (out.resp.status \in 400..499 /\ out.calls = <<>>)

\* C2: a /complete request whose JSON body has an empty or absent parts list,
\* or a missing or empty key or uploadId, gets a 4xx response and the
\* completion call is never made for it.
C2_BodyRejected(req) ==
  /\ req.path = "/complete"
  /\ req.body.t = "object"
  /\ \/ ~Truthy(req.body.key)
     \/ ~Truthy(req.body.uploadId)
     \/ req.body.parts \in {Undefined, Null, Arr(<<>>)}

\* C2: rejected bodies get a 4xx, make no backend call and are never in flight.
C2_CompleteRejectsEmpty ==
  /\ (Routed("/complete") /\ C2_BodyRejected(out.req))
       => (out.resp.status \in 400..499 /\ out.calls = <<>>)
  /\ \A i \in Invs : InFlight(i) => ~C2_BodyRejected(inv[i].req)

\* C3: a /complete request whose body is not parseable as JSON, is absent, or
\* is not an object carrying key, uploadId and parts is answered with a 4xx
\* status, and no backend call is made.
C3_MalformedBodyIsClientError ==
  (Routed("/complete") /\ out.req.body.t \in {"unparseable", "null", "number", "string"})
    => (out.resp.status \in 400..499 /\ out.calls = <<>>)

\* C4: the create-session command of Initiate (whose bucket the session
\* records), the part-upload descriptor signed by Authorize-Part and the
\* completion command of Complete all name the same bucket.
CommandBuckets ==
  {sessions[n].bucket : n \in DOMAIN sessions}
    \cup {inv[i].cmd.Bucket : i \in {j \in Invs : InFlight(j)}}
    \cup (IF IsResponse THEN {out.calls[j].Bucket : j \in DOMAIN out.calls} ELSE {})

\* C4: at most one bucket is named by the commands of all three phases.
C4_SameBucketInAllPhases == Cardinality(CommandBuckets) <= 1

\* C5: for a session opened by Initiate and still open, a PUT, before expiry,
\* through the URL that Authorize-Part issued for (key, uploadId, n) stores
\* part n in that session; and a Complete that lists exactly the stored parts
\* with their ETags succeeds and closes the session.
C5_PutStoresPart ==
  (out.kind = "put" /\ out.fresh /\ out.url.partNumber \in PartNumbers)
    => \A n \in DOMAIN sessions :
         (sessions[n].state = "open" /\ Names(out.url.key, out.url.uploadId, n))
           => (out.verdict = "ok" /\ out.url.partNumber \in sessions[n].parts)

C5_ListsStoredParts(cmd, n) ==
  /\ cmd.Parts # <<>>
  /\ {cmd.Parts[j].PartNumber : j \in DOMAIN cmd.Parts} = sessions[n].parts
  /\ \A j \in DOMAIN cmd.Parts :
       /\ cmd.Parts[j].PartNumber \in PartNumbers
       /\ cmd.Parts[j].ETag = ETag(cmd.Parts[j].PartNumber)

C5_CompleteCloses ==
  \A i \in Invs : \A n \in DOMAIN sessions :
    ( /\ InFlight(i)
      /\ inv[i].cmd.op = "complete"
      /\ sessions[n].state = "open"
      /\ Names(inv[i].cmd.Key, inv[i].cmd.UploadId, n)
      /\ C5_ListsStoredParts(inv[i].cmd, n)
      /\ inv'[i] # inv[i]
      /\ out'.kind = "response"
      /\ out'.err # "ServiceUnavailable" )
    => (out'.resp.body.kind = "completed" /\ sessions'[n].state = "closed")

\* C5: the PUT stores the part and the Complete that lists the stored parts
\* closes the session.
C5_IssuedUrlStoresAndCompletes ==
  [](C5_PutStoresPart) /\ [][C5_CompleteCloses]_vars

\* C6 (as claimed): the Parts of every completion command are in ascending
\* partNumber order, whatever order the client listed them in.
C6_PartsAscending ==
  \A i \in Invs :
    (InFlight(i) /\ inv[i].cmd.op = "complete")
      => \A a, b \in DOMAIN inv[i].cmd.Parts :
           a < b => inv[i].cmd.Parts[a].PartNumber <= inv[i].cmd.Parts[b].PartNumber

\* C6 (amended): the Parts of every completion command list the part numbers
\* in the order the client listed them, one entry per entry of the request.
C6_SameOrder(cmd, req) ==
  /\ Len(cmd.Parts) = Len(req.body.parts.v)
  /\ \A j \in DOMAIN cmd.Parts :
       cmd.Parts[j].PartNumber = req.body.parts.v[j].partNumber

\* C6 (amended): command and request list the part numbers in the same order.
C6_PartsInClientOrder ==
  /\ \A i \in Invs :
       (InFlight(i) /\ inv[i].cmd.op = "complete") => C6_SameOrder(inv[i].cmd, inv[i].req)
  /\ (IsResponse /\ out.calls # <<>> /\ out.calls[1].op = "complete")
       => C6_SameOrder(out.calls[1], out.req)

C6_Witness ==
  \E i \in Invs :
    /\ InFlight(i)
    /\ inv[i].cmd.op = "complete"
    /\ Len(inv[i].req.body.parts.v) = 2
    /\ inv[i].req.body.parts.v[1].partNumber > inv[i].req.body.parts.v[2].partNumber
    /\ inv[i].cmd.Parts[1].PartNumber > inv[i].cmd.Parts[2].PartNumber

\* C7 (as claimed): once a session is no longer open, every later
\* Authorize-Part and every later Complete against it fails with a backend
\* error.
C7_SignPartFails ==
  (Routed("/sign-part") /\ SignParamsValid(out.req))
    => \A n \in DOMAIN sessions :
         (sessions[n].state # "open" /\ Names(out.req.key.v, out.req.uploadId.v, n))
           => (out.err # NoErr /\ out.resp.body.kind # "signed")

C7_CompleteFails ==
  \A i \in Invs : \A n \in DOMAIN sessions :
    ( /\ InFlight(i)
      /\ inv[i].cmd.op = "complete"
      /\ sessions[n].state # "open"
      /\ Names(inv[i].cmd.Key, inv[i].cmd.UploadId, n)
      /\ inv'[i] # inv[i] )
    => (out'.kind = "response" /\ out'.err # NoErr /\ out'.resp.body.kind # "completed")

\* C7 (as claimed): both Authorize-Part and Complete fail against a session
\* that is not open.
C7_NotOpenSessionRefusesAll ==
  [](C7_SignPartFails) /\ [][C7_CompleteFails]_vars

\* C7 (amended): once a session is no longer open, every later Complete
\* against it is rejected by the backend: the invocation ends with that
\* error (in the body of the catch's response where the handler has a
\* catch) and no location, and the session is never changed again, neither
\* by a Complete nor by a PUT through a signed URL.
C7_CompleteRejected ==
  \A i \in Invs : \A n \in DOMAIN sessions :
    ( /\ InFlight(i)
      /\ inv[i].cmd.op = "complete"
      /\ sessions[n].state # "open"
      /\ Names(inv[i].cmd.Key, inv[i].cmd.UploadId, n)
      /\ inv'[i] # inv[i] )
    => /\ inv'[i] = Idle
       /\ out'.kind = "response"
       /\ out'.err \in {"NoSuchUpload", "ServiceUnavailable"}
       /\ out'.resp.body.kind # "completed"
       /\ HasCatch(rev) => (out'.resp.body.kind = "error" /\ out'.resp.body.error = out'.err)

C7_NotOpenFrozen ==
  \A n \in DOMAIN sessions : sessions[n].state # "open" => sessions'[n] = sessions[n]

\* C7 (amended): Complete is rejected and the session stays as it is.
C7_NotOpenSessionRejectsComplete ==
  [][C7_CompleteRejected /\ C7_NotOpenFrozen]_vars

C7_Witness ==
  /\ IsResponse
  /\ out.req.path = "/complete"
  /\ out.err = "NoSuchUpload"
  /\ out.resp.body.kind = "error"
  /\ \E n \in DOMAIN sessions :
       /\ sessions[n].state = "closed"
       /\ Names(out.calls[1].Key, out.calls[1].UploadId, n)

\* C8: Authorize-Part never checks that key and uploadId name an open
\* session: with non-empty key and uploadId and a positive partNumber it
\* calls the signer and nothing else, and unless the signer itself raises it
\* returns the signed URL of exactly those three values, whatever the state
\* of the session; no session error ever comes out of it.
C8_SignPartIgnoresSession ==
  (Routed("/sign-part") /\ SignParamsValid(out.req))
    => /\ Len(out.calls) = 1
       /\ out.calls[1].op = "sign"
       /\ out.err \in {NoErr, "SigningError"}
       /\ (out.err = NoErr)
            => /\ out.resp.status = 200
               /\ out.resp.body.kind = "signed"
               /\ out.resp.body.signedUrl.key = out.req.key.v
               /\ out.resp.body.signedUrl.uploadId = out.req.uploadId.v
               /\ out.resp.body.signedUrl.partNumber = ToNumber(out.req.partNumber).v

C8_Witness ==
  /\ Routed("/sign-part")
  /\ out.resp.body.kind = "signed"
  /\ \E n \in DOMAIN sessions :
       /\ sessions[n].state = "closed"
       /\ Names(out.req.key.v, out.req.uploadId.v, n)

\* C9: an invocation issues at most one backend operation; when that
\* operation fails the invocation ends in the same step with its error
\* outcome, having issued the operation once, and the sessions are left as
\* they were.
C9_OneCallAtMost ==
  /\ \A i \in Invs : InFlight(i) => Len(inv[i].calls) = 1
  /\ IsResponse => Len(out.calls) <= 1

C9_FailureEndsInvocation ==
  \A i \in Invs :
    (InFlight(i) /\ inv'[i] # inv[i] /\ out'.kind = "response" /\ out'.err # NoErr)
      => /\ inv'[i] = Idle
         /\ out'.calls = inv[i].calls
         /\ out'.resp.body.kind \in {"error", "runtime-error"}
         /\ sessions' = sessions

\* C9: one backend operation at most, and a failure ends the invocation.
C9_NoRetryNoCompensation ==
  [](C9_OneCallAtMost) /\ [][C9_FailureEndsInvocation]_vars

C9_Witness ==
  /\ IsResponse
  /\ out.req.path = "/complete"
  /\ out.err = "InvalidPart"
  /\ Len(out.calls) = 1
  /\ \E n \in DOMAIN sessions :
       /\ sessions[n].state = "open"
       /\ Names(out.calls[1].Key, out.calls[1].UploadId, n)

\* C10: whenever the backend operation of Initiate, Authorize-Part or
\* Complete raises an error, the response has a 5xx status and carries that
\* error's detail unchanged.
C10_BackendErrorIs5xx ==
  (IsResponse /\ out.err \in BackendErrors)
    => /\ out.resp.status \in 500..599
       /\ out.resp.body.kind = "error"
       /\ out.resp.body.error = out.err

\* C11: each Initiate call generates one key, and no two create-session
\* commands issued by the coordinator carry the same key, whatever the order
\* and interleaving of the calls; so no two sessions share a key.
C11_OneKeyPerCall ==
  \A i \in Invs :
    (InFlight(i) /\ inv[i].cmd.op = "create")
      => /\ inv[i].calls = <<inv[i].cmd>>
         /\ Cardinality({j \in DOMAIN issued : issued[j] = inv[i].cmd}) = 1

\* C11: the keys of the create-session commands, and of the sessions, are
\* pairwise different.
C11_KeyNeverReused ==
  /\ \A a, b \in DOMAIN issued : a # b => issued[a].Key # issued[b].Key
  /\ \A m, n \in DOMAIN sessions : m # n => sessions[m].key # sessions[n].key
  /\ \A n \in DOMAIN sessions : \E a \in DOMAIN issued : issued[a].Key = sessions[n].key
  /\ C11_OneKeyPerCall

C11_Witness ==
  /\ Len(issued) = 2
  /\ \E i, j \in Invs :
       /\ i # j
       /\ InFlight(i) /\ inv[i].cmd = issued[1]
       /\ InFlight(j) /\ inv[j].cmd = issued[2]

\* C12: invocations share no in-process state.  The response of an
\* invocation is made of its own request, of its own command and of the
\* backend's answer to that command, in every interleaving; and a step of one
\* invocation changes no other invocation.
C12_OwnResponse ==
  IsResponse =>
    LET b == out.resp.body
        q == out.req
    IN CASE b.kind = "initiated" ->
              /\ Len(out.calls) = 1
              /\ out.calls[1].op = "create"
              /\ b.key = out.calls[1].Key
              /\ \E n \in DOMAIN sessions :
                   /\ sessions[n].key = out.calls[1].Key
                   /\ sessions[n].bucket = out.calls[1].Bucket
                   /\ b.uploadId = UploadId(n)
         [] b.kind = "signed" ->
              /\ q.path = "/sign-part"
              /\ out.calls = <<[op |-> "sign", Bucket |-> b.signedUrl.bucket,
                                Key |-> q.key.v, PartNumber |-> ToNumber(q.partNumber).v,
                                UploadId |-> q.uploadId.v]>>
              /\ b.signedUrl.key = q.key.v
              /\ b.signedUrl.uploadId = q.uploadId.v
              /\ b.signedUrl.partNumber = ToNumber(q.partNumber).v
         [] b.kind = "completed" ->
              /\ q.path = "/complete"
              /\ Len(out.calls) = 1
              /\ out.calls[1].Key = q.body.key.v
              /\ out.calls[1].UploadId = q.body.uploadId.v
              /\ b.location = Location(out.calls[1].Bucket, q.body.key.v)
              /\ (rev = "index") => b.key = q.body.key.v
         [] b.kind = "error" -> out.err # NoErr /\ b.error = out.err
         [] b.kind = "runtime-error" -> out.err # NoErr
         [] b.kind = "text" ->
              /\ out.calls = <<>>
              /\ b.text = (CASE q.path = "/sign-part" -> "Missing parameters"
                             [] q.path = "/complete" -> "Invalid request body"
                             [] OTHER -> "Not found")
         [] b.kind = "empty" -> q.method = "OPTIONS" /\ out.calls = <<>>

C12_OwnCommand ==
  \A i \in Invs :
    /\ (InFlight(i) /\ inv[i].cmd.op = "complete")
         => /\ inv[i].cmd.Key = inv[i].req.body.key.v
            /\ inv[i].cmd.UploadId = inv[i].req.body.uploadId.v
    /\ (inv[i].pc = "signing")
         => /\ inv[i].res.calls[1].Key = inv[i].req.key.v
            /\ inv[i].res.calls[1].UploadId = inv[i].req.uploadId.v
            /\ inv[i].res.calls[1].PartNumber = ToNumber(inv[i].req.partNumber).v

C12_SlotsIsolated ==
  \A i \in Invs :
    (inv'[i] # inv[i])
      => /\ \A j \in Invs \ {i} : inv'[j] = inv[j]
         /\ (inv[i].pc # "idle" /\ out'.kind = "response") => out'.req = inv[i].req

\* C12: own response, own command, and no step of one invocation touches another.
C12_InvocationsIndependent ==
  [](C12_OwnResponse /\ C12_OwnCommand) /\ [][C12_SlotsIsolated]_vars

\* Two Authorize-Part calls for the same session are in flight at once and
\* the one for the higher part number is answered first.
C12_Witness ==
  /\ Routed("/sign-part")
  /\ out.resp.body.kind = "signed"
  /\ \E i \in Invs :
       /\ inv[i].pc = "signing"
       /\ inv[i].req.key = out.req.key
       /\ inv[i].req.uploadId = out.req.uploadId
       /\ Truthy(inv[i].req.key)
       /\ ToNumber(inv[i].req.partNumber).v < ToNumber(out.req.partNumber).v
       /\ \E n \in DOMAIN sessions :
            sessions[n].state = "open" /\ Names(out.req.key.v, out.req.uploadId.v, n)

\* C13: Authorize-Part is idempotent with respect to session state.  A call
\* with non-empty key and uploadId and a positive partNumber gets, whenever
\* the signer answers, the signed URL of those three values, however many
\* identical calls came before or run beside it; the part-upload command is
\* never sent to the backend; and no step of an Authorize-Part invocation
\* changes the sessions, their part slots or any other invocation.
C13_EachCallSigns ==
  \A i \in Invs :
    (inv[i].pc = "signing")
      => /\ SignParamsValid(inv[i].req)
         /\ inv[i].res.err \in {NoErr, "SigningError"}
         /\ (inv[i].res.err = NoErr)
              => /\ inv[i].res.resp.status = 200
                 /\ inv[i].res.resp.body.kind = "signed"
                 /\ inv[i].res.resp.body.signedUrl =
                      [bucket |-> inv[i].res.calls[1].Bucket,
                       key |-> inv[i].req.key.v,
                       uploadId |-> inv[i].req.uploadId.v,
                       partNumber |-> ToNumber(inv[i].req.partNumber).v,
                       expiresIn |-> 3600]

C13_NeverSent ==
  \A i \in Invs : InFlight(i) => inv[i].cmd.op \in {"create", "complete"}

\* A step of an invocation routed to /sign-part.
C13_SignPartStep ==
  \/ \E i \in Invs : inv'[i] # inv[i] /\ "signing" \in {inv[i].pc, inv'[i].pc}
  \/ /\ out = NoOut
     /\ out'.kind = "response"
     /\ out'.req.path = "/sign-part"
     /\ ~(HandlesOptions(rev) /\ out'.req.method = "OPTIONS")

C13_NoStateChange ==
  C13_SignPartStep
    => /\ sessions' = sessions
       /\ issued' = issued
       /\ \A i \in Invs : (inv'[i] # inv[i]) => "signing" \in {inv[i].pc, inv'[i].pc}

\* C13: every call signs, nothing is sent, and no state changes.
C13_SignPartIdempotent ==
  [](C13_EachCallSigns /\ C13_NeverSent) /\ [][C13_NoStateChange]_vars

\* A call is answered with a signed URL while an identical call is in
\* flight, for a part of an open session that an earlier URL already stored.
C13_Witness ==
  /\ Routed("/sign-part")
  /\ out.resp.body.kind = "signed"
  /\ \E i \in Invs :
       inv[i].pc = "signing" /\ inv[i].req = out.req /\ inv[i].res.err = NoErr
  /\ \E n \in DOMAIN sessions :
       /\ sessions[n].state = "open"
       /\ Names(out.req.key.v, out.req.uploadId.v, n)
       /\ out.resp.body.signedUrl.partNumber \in sessions[n].parts

\* C14: a request with method OPTIONS, to any path and in any state of the
\* backend, is answered with a 2xx status, no body and the three CORS
\* headers, and causes no backend interaction.
C14_PreflightResponse ==
  (IsResponse /\ out.req.method = "OPTIONS")
    => /\ out.resp.status \in 200..299
       /\ out.resp.body.kind = "empty"
       /\ CorsHeaders \subseteq out.resp.headers
       /\ out.calls = <<>>
       /\ out.err = NoErr

C14_PreflightNotInFlight ==
  \A i \in Invs : inv[i].pc # "idle" => inv[i].req.method # "OPTIONS"

C14_PreflightStepIsPure ==
  (out'.kind = "response" /\ out' # out /\ out'.req.method = "OPTIONS")
    => (sessions' = sessions /\ issued' = issued /\ inv' = inv)

\* C14: the preflight answer, with no invocation left in flight and no state
\* changed.
C14_PreflightAnswered ==
  [](C14_PreflightResponse /\ C14_PreflightNotInFlight)
    /\ [][C14_PreflightStepIsPure]_vars

\* A preflight answered while the session its request names is closed.
C14_Witness ==
  /\ IsResponse
  /\ out.req.method = "OPTIONS"
  /\ out.req.path = "/complete"
  /\ out.req.body.t = "object"
  /\ out.resp.body.kind = "empty"
  /\ \E n \in DOMAIN sessions :
       /\ sessions[n].state = "closed"
       /\ Names(out.req.body.key.v, out.req.body.uploadId.v, n)

\* C15: a request whose method is not OPTIONS and whose path is none of
\* /initiate, /sign-part and /complete is answered "Not found" with status
\* 404, and causes no backend interaction.
C15_UnknownPathIs404 ==
  ( /\ IsResponse
    /\ out.req.method # "OPTIONS"
    /\ out.req.path \notin {"/initiate", "/sign-part", "/complete"} )
    => /\ out.resp.status = 404
       /\ out.resp.body = [kind |-> "text", text |-> "Not found"]
       /\ out.calls = <<>>

\* C16: every response the handler produces, on every path and for every
\* outcome, carries the three permissive CORS headers.
C16_EveryResponseHasCors ==
  IsResponse => CorsHeaders \subseteq out.resp.headers

\* The status the handler gives the response it builds for each outcome.
C17_BuiltStatus(body) ==
  CASE body.kind = "error" -> 500
    [] body.kind = "text" /\ body.text = "Not found" -> 404
    [] body.kind = "text" -> 400
    [] OTHER -> 200

\* C17: withCors preserves the status of the response it wraps: the
\* response returned to the client has the status (200, 400, 404 or 500)
\* the handler built it with.
C17_WithCorsKeepsStatus ==
  (IsResponse /\ HasCors(rev) /\ out.resp.body.kind # "empty")
    => out.resp.status = C17_BuiltStatus(out.resp.body)

\* C18: for every accepted /complete request the parts sent to the backend
\* are exactly the parts the client supplied: one {ETag, PartNumber} entry
\* per entry of the request, with its etag and partNumber, none added,
\* dropped, merged or de-duplicated; and a request with key, uploadId and a
\* non-empty list of parts is always accepted, whatever the list holds.
C18_Accepted(req) ==
  /\ req.path = "/complete"
  /\ req.body.t = "object"
  /\ Truthy(req.body.key)
  /\ Truthy(req.body.uploadId)
  /\ req.body.parts.t = "array"
  /\ req.body.parts.v # <<>>

C18_Forwarded(cmd, req) ==
  /\ cmd.Key = req.body.key.v
  /\ cmd.UploadId = req.body.uploadId.v
  /\ DOMAIN cmd.Parts = DOMAIN req.body.parts.v
  /\ \A j \in DOMAIN cmd.Parts :
       /\ cmd.Parts[j].ETag = req.body.parts.v[j].etag
       /\ cmd.Parts[j].PartNumber = req.body.parts.v[j].partNumber

\* C18: the command carries the client's manifest entry for entry.
C18_PartsForwardedExactly ==
  /\ \A i \in Invs :
       (InFlight(i) /\ inv[i].cmd.op = "complete")
         => (C18_Accepted(inv[i].req) /\ C18_Forwarded(inv[i].cmd, inv[i].req))
  /\ (Routed("/complete") /\ C18_Accepted(out.req))
       => /\ Len(out.calls) = 1
          /\ out.calls[1].op = "complete"
          /\ C18_Forwarded(out.calls[1], out.req)

\* A manifest that lists part 1 twice, with different ETags, is sent as it is.
C18_Witness ==
  \E i \in Invs :
    /\ InFlight(i)
    /\ inv[i].cmd.op = "complete"
    /\ inv[i].req.body.parts.v = <<[etag |-> BadETag, partNumber |-> 1],
                                   [etag |-> ETag(1), partNumber |-> 1]>>
    /\ Len(inv[i].cmd.Parts) = 2
    /\ inv[i].cmd.Parts[1].ETag = BadETag
    /\ inv[i].cmd.Parts[2].ETag = ETag(1)

====
